---- MODULE Spec2Model ----
(***************************************************************************)
(* A model of the blog front-end of tuannha-blog: the Home page, which     *)
(* sorts the generated post feed by date and renders one PostCard per      *)
(* post, the PostCard and Tag components, the navigation lists and the     *)
(* page shell of RootLayout.                                               *)
(***************************************************************************)
EXTENDS Integers, Sequences, FiniteSets, TLC

VARIABLES
    tz,        \* UTC offset, in hours, of the process that renders
    feed,      \* allPosts as the content build generated it (never written)
    allPosts,  \* the array exported by contentlayer/generated, shared by importers
    homeOut,   \* the outputs of the Home renders so far, oldest first
    props,     \* the Post record passed to a PostCard rendered on its own
    cardOut,   \* the outputs of the PostCard renders of props so far
    navOut,    \* the links rendered by Navigation, <<>> before its render
    docsNav,   \* the nav of the documentation config loaded, <<>> before
    layoutOut  \* the page RootLayout rendered, <<>> before its render

vars == <<tz, feed, allPosts, homeOut, props, cardOut, navOut, docsNav, layoutOut>>

----------------------------------------------------------------------------
(* Bounds *)

\* most posts in the generated feed
MaxPosts == 3
\* most renders of Home, and of one PostCard, that are recorded
MaxRenders == 3

----------------------------------------------------------------------------
(* ISO-8601 date strings, as their lexical parts.  A date-only string has  *)
(* the fields y, m, d; a date-time string has h and zone as well, zone     *)
(* being "Z" or "local" (no offset written).                               *)

DateOnly(y, m, d) == [y |-> y, m |-> m, d |-> d]
DateTime(y, m, d, h, zone) == [y |-> y, m |-> m, d |-> d, h |-> h, zone |-> zone]

HasTime(s) == "h" \in DOMAIN s

IsLeap(y) == (y % 4 = 0 /\ y % 100 # 0) \/ y % 400 = 0

LeapDaysBefore(y) == ((y - 1) \div 4) - ((y - 1) \div 100) + ((y - 1) \div 400)

\* days from 1970-01-01 to January 1st of year y
DaysBeforeYear(y) == 365 * (y - 1970) + LeapDaysBefore(y) - LeapDaysBefore(1970)

CumDays == <<0, 31, 59, 90, 120, 151, 181, 212, 243, 273, 304, 334>>

DaysBeforeMonth(y, m) == CumDays[m] + (IF m > 2 /\ IsLeap(y) THEN 1 ELSE 0)

DaysFromCivil(y, m, d) == DaysBeforeYear(y) + DaysBeforeMonth(y, m) + (d - 1)

\* the calendar date of day number n (days since 1970-01-01)
CivilFromDays(n) ==
    LET y == CHOOSE yy \in (1970 + (n \div 366))..(1970 + (n \div 365)) :
                 DaysBeforeYear(yy) <= n /\ n < DaysBeforeYear(yy + 1)
        r == n - DaysBeforeYear(y)
        m == CHOOSE mm \in 1..12 :
                 /\ DaysBeforeMonth(y, mm) <= r
                 /\ (mm = 12 \/ r < DaysBeforeMonth(y, mm + 1))
    IN  [y |-> y, m |-> m, d |-> r - DaysBeforeMonth(y, m) + 1]

\* new Date(s).getTime(), in hours: a date-only string is UTC midnight, a
\* date-time string without offset is local time
NewDate(s, zoneOffset) ==
    LET day == DaysFromCivil(s.y, s.m, s.d) * 24
    IN  IF ~HasTime(s) THEN day
        ELSE IF s.zone = "Z" THEN day + s.h
        ELSE day + s.h - zoneOffset

\* date-fns parseISO(s).getTime(), in hours: a date-only string is local
\* midnight
ParseISO(s, zoneOffset) ==
    LET day == DaysFromCivil(s.y, s.m, s.d) * 24
    IN  IF ~HasTime(s) THEN day - zoneOffset
        ELSE IF s.zone = "Z" THEN day + s.h
        ELSE day + s.h - zoneOffset

MonthNames ==
    <<"January", "February", "March", "April", "May", "June", "July",
      "August", "September", "October", "November", "December">>

\* date-fns format(t, 'LLLL d, yyyy'): the local calendar date of instant t
Format(t, zoneOffset) ==
    LET c == CivilFromDays((t + zoneOffset) \div 24)
    IN  [month |-> MonthNames[c.m], d |-> c.d, yyyy |-> c.y]

\* date-fns compareAsc, the ascending comparison
CompareAsc(l, r) ==
    LET diff == l - r
    IN  IF diff < 0 THEN -1 ELSE IF diff > 0 THEN 1 ELSE diff

\* a descending comparison that answers -1 for equal instants
CompareDescTiesFirst(l, r) ==
    LET diff == l - r
    IN  IF diff > 0 THEN -1 ELSE IF diff < 0 THEN 1 ELSE -1

\* date-fns compareDesc(l, r) on two valid dates given by their getTime()
CompareDesc(l, r) ==
    LET diff == l - r
    IN  IF diff > 0 THEN -1 ELSE IF diff < 0 THEN 1 ELSE diff

----------------------------------------------------------------------------
(* Array.prototype.sort with the comparator of Home.  The engine sorts a   *)
(* short array by binary insertion; ECMAScript requires the sort to be     *)
(* stable.                                                                  *)

\* (a, b) => compareDesc(new Date(a.date), new Date(b.date))
Comparator(a, b, zoneOffset) ==
    CompareDesc(NewDate(a.date, zoneOffset), NewDate(b.date, zoneOffset))

RECURSIVE BinarySearchBeforeEqual(_, _, _, _, _)
\* a binary search that places the pivot before the elements it ties with
BinarySearchBeforeEqual(a, pivot, left, right, zoneOffset) ==
    IF left >= right THEN left
    ELSE LET mid == left + ((right - left) \div 2)
             order == Comparator(pivot, a[mid], zoneOffset)
         IN  IF order <= 0
             THEN BinarySearchBeforeEqual(a, pivot, left, mid, zoneOffset)
             ELSE BinarySearchBeforeEqual(a, pivot, mid + 1, right, zoneOffset)

RECURSIVE BinarySearch(_, _, _, _, _)
\* the index in left..right at which pivot is inserted into the sorted
\* prefix a[left..right-1]: after every element that does not sort after it
BinarySearch(a, pivot, left, right, zoneOffset) ==
    IF left >= right THEN left
    ELSE LET mid == left + ((right - left) \div 2)
             order == Comparator(pivot, a[mid], zoneOffset)
         IN  IF order < 0
             THEN BinarySearch(a, pivot, left, mid, zoneOffset)
             ELSE BinarySearch(a, pivot, mid + 1, right, zoneOffset)

\* an insertion that writes the pivot at left without shifting
InsertAtOverwrite(a, start, left) == [a EXCEPT ![left] = a[start]]

\* a with a[start] moved down to index left, a[left..start-1] shifted up
InsertAt(a, start, left) ==
    [i \in 1..Len(a) |->
        IF i < left \/ i > start THEN a[i]
        ELSE IF i = left THEN a[start]
        ELSE a[i - 1]]

RECURSIVE BinaryInsertionSort(_, _, _)
BinaryInsertionSort(a, start, zoneOffset) ==
    IF start > Len(a) THEN a
    ELSE BinaryInsertionSort(
             InsertAt(a, start, BinarySearch(a, a[start], 1, start, zoneOffset)),
             start + 1, zoneOffset)

\* a sort whose insertion starts one element late: the first two elements
\* are never compared
ArraySortFromThird(a, zoneOffset) ==
    IF Len(a) < 2 THEN a ELSE BinaryInsertionSort(a, 3, zoneOffset)

\* the array after a.sort(comparator); sort works in place and returns a
ArraySort(a, zoneOffset) ==
    IF Len(a) < 2 THEN a ELSE BinaryInsertionSort(a, 2, zoneOffset)

----------------------------------------------------------------------------
(* Post records.  tags is optional: a record without tags has no such      *)
(* field.                                                                   *)

DateStrings ==
    { DateOnly(2023, 12, 31), DateOnly(2024, 1, 1), DateOnly(2024, 6, 15),
      DateTime(2024, 1, 1, 0, "Z"), DateTime(2023, 12, 31, 22, "local") }

Titles == {"Optimize Dockerfile", "API convention"}

Zones == {-5, 7}

TagLists ==
    { <<>>, <<"backend">>, <<"backend", "devops">>, <<"devops", "devops">> }

Slug(title) == IF title = "Optimize Dockerfile" THEN "/posts/optimize-dockerfile"
               ELSE "/posts/api-convention"

Untagged(title, date) ==
    [title |-> title, date |-> date, description |-> <<"About", title>>,
     url |-> Slug(title)]

Tagged(title, date, tags) ==
    [title |-> title, date |-> date, description |-> <<"About", title>>,
     url |-> Slug(title), tags |-> tags]

\* the records the content build can put in the feed: each article has its
\* own url, description and tags, under any of the dates
FeedPosts ==
    { Tagged("Optimize Dockerfile", d, <<"backend", "devops">>) : d \in DateStrings }
    \cup { Untagged("API convention", d) : d \in DateStrings }

\* the records a PostCard is rendered with on its own
CardInputs ==
    { Untagged(t, d) : t \in Titles, d \in DateStrings }
    \cup { Tagged(t, d, g) : t \in Titles, d \in DateStrings, g \in TagLists }

Feeds == UNION { [1..n -> FeedPosts] : n \in 0..MaxPosts }

----------------------------------------------------------------------------
(* Components *)

\* what a render that throws leaves
Threw == [threw |-> TRUE]

\* <Tag tag={tag} />
Tag(tag) == [el |-> "div", p |-> tag]

\* the chips in the opposite order
TagRowReversed(tags) == [idx \in 1..Len(tags) |-> Tag(tags[Len(tags) + 1 - idx])]

\* tags.map((tag, idx) => <Tag key={idx} tag={tag} />)
TagRow(tags) == [idx \in 1..Len(tags) |-> Tag(tags[idx])]

\* tags && tags.length > 0, tags being post.tags
ShowTags(post) == "tags" \in DOMAIN post /\ Len(post.tags) > 0

\* a PostCard that reads tags.length with no presence check: a TypeError
\* when tags is undefined
PostCardNoPresenceCheck(post, zoneOffset) ==
    IF "tags" \notin DOMAIN post THEN Threw
    ELSE [threw |-> FALSE,
          time |-> [dateTime |-> post.date,
                    text |-> Format(ParseISO(post.date, zoneOffset), zoneOffset)],
          link |-> [href |-> post.url, text |-> post.title],
          rows |-> IF Len(post.tags) > 0 THEN <<TagRow(post.tags)>> ELSE <<>>,
          description |-> post.description]

\* the article element PostCard returns; rows holds the tag row when it is
\* rendered and nothing otherwise
PostCard(post, zoneOffset) ==
    [threw |-> FALSE,
     time |-> [dateTime |-> post.date,
               text |-> Format(ParseISO(post.date, zoneOffset), zoneOffset)],
     link |-> [href |-> post.url, text |-> post.title],
     rows |-> IF ShowTags(post) THEN <<TagRow(post.tags)>> ELSE <<>>,
     description |-> post.description]

\* a map that renders every card from the first post
PostCardsAllFirst(posts, zoneOffset) ==
    [idx \in 1..Len(posts) |-> PostCard(posts[1], zoneOffset)]

\* posts.map((post, idx) => <PostCard key={idx} {...post} />)
PostCards(posts, zoneOffset) ==
    [idx \in 1..Len(posts) |-> PostCard(posts[idx], zoneOffset)]

\* a Home that reads its first post before mapping: a TypeError on no posts
HomeRenderFirstPost(posts, zoneOffset) ==
    IF Len(posts) = 0 THEN Threw
    ELSE [threw |-> FALSE, cards |-> PostCards(posts, zoneOffset)]

\* what Home returns for the sorted posts: the cards, unless one threw
HomeRender(posts, zoneOffset) ==
    LET cs == PostCards(posts, zoneOffset)
    IN  IF \E i \in 1..Len(cs) : cs[i].threw THEN Threw
        ELSE [threw |-> FALSE, cards |-> cs]

\* <nav> of the blog
Navigation ==
    << [href |-> "/", text |-> "Home"],
       [href |-> "/posts", text |-> "Post"],
       [href |-> "/tags", text |-> "Tags"],
       [href |-> "/about", text |-> "About"] >>

\* the documentation site's configuration files
DocsConfigs == {"docs/.vitepress/config.mts", "unnamed/part_007"}

\* themeConfig.nav of a configuration file
ThemeNav(file) ==
    IF file = "docs/.vitepress/config.mts"
    THEN << [text |-> "Home", link |-> "/"],
            [text |-> "DevOps", link |-> "/devops"],
            [text |-> "Backend", link |-> "/backend"],
            [text |-> "Me", link |-> "/me"],
            [text |-> "Sponsor", link |-> "/sponsor"] >>
    ELSE << [text |-> "Home", link |-> "/"],
            [text |-> "DevOps", link |-> "/devops"],
            [text |-> "Backend", link |-> "/backend"] >>

----------------------------------------------------------------------------
(* The page shell, as a tree of elements: el names the element or the      *)
(* component, kids are its children in document order.                     *)

Node(el, kids) == [el |-> el, kids |-> kids]

\* <Container>, a wrapper around its children
Container(kids) == Node("Container", kids)

\* <Profile />
Profile ==
    Node("Profile",
         <<Node("div", <<Node("div", <<Node("Image", <<>>)>>), Node("h3", <<>>)>>)>>)

\* <Navigation />: a nav of one Link per entry
NavigationElement ==
    Node("Navigation",
         <<Node("nav", [i \in 1..Len(Navigation) |-> Node("Link", <<>>)])>>)

\* <ThemeSwitch />
ThemeSwitch == Node("ThemeSwitch", <<>>)

\* a Header that puts Navigation before Profile
HeaderNavigationFirst ==
    Node("Header",
         <<Node("header",
                <<Container(
                      <<Node("div",
                             <<Node("div", <<NavigationElement, Profile>>),
                               Node("div", <<ThemeSwitch>>)>>)>>)>>)>>)

\* <Header />
Header ==
    Node("Header",
         <<Node("header",
                <<Container(
                      <<Node("div",
                             <<Node("div", <<Profile, NavigationElement>>),
                               Node("div", <<ThemeSwitch>>)>>)>>)>>)>>)

\* <Footer />
Footer ==
    Node("Footer", <<Node("footer", <<Container(<<Node("small", <<>>)>>)>>)>>)

\* the html element RootLayout returns for the page content children
RootLayout(children) ==
    Node("html",
         <<Node("body",
                <<Node("ThemeProvider",
                       <<Header,
                         Node("main", <<Container(<<children>>)>>),
                         Footer>>)>>)>>)

\* the content of the pages: Home (with no posts) and About
PageContents ==
    { Node("Home", <<Node("div", <<Node("div", <<>>), Node("div", <<>>)>>)>>),
      Node("About", <<Node("div", <<Node("p", <<>>)>>)>>) }

----------------------------------------------------------------------------
(* The Home page over the generated feed *)

Init ==
    /\ tz \in Zones
    /\ feed \in Feeds
    /\ allPosts = feed
    /\ homeOut = <<>>
    /\ props = Untagged("API convention", DateOnly(2024, 1, 1))
    /\ cardOut = <<>>
    /\ navOut = <<>>
    /\ docsNav = <<>>
    /\ layoutOut = <<>>

\* one render of Home: sort allPosts in place, then map it to cards
Home ==
    /\ Len(homeOut) < MaxRenders
    /\ allPosts' = ArraySort(allPosts, tz)
    /\ homeOut' = Append(homeOut, HomeRender(allPosts', tz))
    /\ UNCHANGED <<tz, feed, props, cardOut, navOut, docsNav, layoutOut>>

Next == Home

Spec == Init /\ [][Next]_vars

----------------------------------------------------------------------------
(* The components rendered on their own *)

InitComponents ==
    /\ tz \in Zones
    /\ feed = <<>>
    /\ allPosts = feed
    /\ homeOut = <<>>
    /\ props \in CardInputs
    /\ cardOut = <<>>
    /\ navOut = <<>>
    /\ docsNav = <<>>
    /\ layoutOut = <<>>

\* a render of PostCard that reverses the tags array of its props in place
RenderPostCardReversingTags ==
    /\ Len(cardOut) < MaxRenders
    /\ cardOut' = Append(cardOut, PostCard(props, tz))
    /\ props' = IF "tags" \in DOMAIN props
                THEN [props EXCEPT !.tags =
                         [i \in 1..Len(props.tags) |-> props.tags[Len(props.tags) + 1 - i]]]
                ELSE props
    /\ UNCHANGED <<tz, feed, allPosts, homeOut, navOut, docsNav, layoutOut>>

\* one render of PostCard with props
RenderPostCard ==
    /\ Len(cardOut) < MaxRenders
    /\ cardOut' = Append(cardOut, PostCard(props, tz))
    /\ UNCHANGED <<tz, feed, allPosts, homeOut, props, navOut, docsNav, layoutOut>>

RenderNavigation ==
    /\ navOut = <<>>
    /\ navOut' = Navigation
    /\ UNCHANGED <<tz, feed, allPosts, homeOut, props, cardOut, docsNav, layoutOut>>

LoadDocsConfig(file) ==
    /\ docsNav = <<>>
    /\ docsNav' = ThemeNav(file)
    /\ UNCHANGED <<tz, feed, allPosts, homeOut, props, cardOut, navOut, layoutOut>>

\* one render of RootLayout around a page
RenderRootLayout(children) ==
    /\ layoutOut = <<>>
    /\ layoutOut' = <<[children |-> children, tree |-> RootLayout(children)]>>
    /\ UNCHANGED <<tz, feed, allPosts, homeOut, props, cardOut, navOut, docsNav>>

NextComponents ==
    \/ RenderPostCard
    \/ RenderNavigation
    \/ \E file \in DocsConfigs : LoadDocsConfig(file)
    \/ \E children \in PageContents : RenderRootLayout(children)

SpecComponents == InitComponents /\ [][NextComponents]_vars

----------------------------------------------------------------------------
(* Properties *)

\* the instant new Date gives the date string a card carries
CardInstant(card) == NewDate(card.time.dateTime, tz)

\* how many times x occurs in seq
Count(seq, x) == Cardinality({i \in 1..Len(seq) : seq[i] = x})

\* the posts of seq whose date denotes instant t, in order
AtInstant(seq, t) ==
    LET Test(p) == NewDate(p.date, tz) = t
    IN  SelectSeq(seq, Test)

\* the cards of seq whose date denotes instant t, in order
CardsAtInstant(seq, t) ==
    LET Test(c) == CardInstant(c) = t
    IN  SelectSeq(seq, Test)

DatesOf(seq) == [i \in 1..Len(seq) |-> seq[i].date]

\* C1: in every render of Home the cards are ordered by publication date
\* descending: a card before another has a date no earlier than it.
C1_CardsSortedDescending ==
    \A n \in 1..Len(homeOut) :
        /\ ~homeOut[n].threw
        /\ \A i, j \in 1..Len(homeOut[n].cards) :
               i < j => CardInstant(homeOut[n].cards[i]) >= CardInstant(homeOut[n].cards[j])

\* the feed 2024-01-01, 2024-06-15, 2023-12-31 rendered as 2024-06-15,
\* 2024-01-01, 2023-12-31
C1_Witness ==
    /\ DatesOf(feed) = <<DateOnly(2024, 1, 1), DateOnly(2024, 6, 15), DateOnly(2023, 12, 31)>>
    /\ Len(homeOut) >= 1
    /\ ~homeOut[1].threw
    /\ [i \in 1..Len(homeOut[1].cards) |-> homeOut[1].cards[i].time.dateTime]
           = <<DateOnly(2024, 6, 15), DateOnly(2024, 1, 1), DateOnly(2023, 12, 31)>>

\* the latest output of Home (every render is the latest in some state)
LastHome == homeOut[Len(homeOut)]

\* C2: a render of Home holds exactly one card per post of the generated
\* list: as many cards as posts, and each post's card as often as the post
\* occurs in the list.
C2_OneCardPerPost ==
    homeOut # <<>> =>
        /\ ~LastHome.threw
        /\ Len(LastHome.cards) = Len(feed)
        /\ \A p \in {feed[i] : i \in 1..Len(feed)} :
               Count(LastHome.cards, PostCard(p, tz)) = Count(feed, p)

\* a rendered feed of the most posts, out of order, that holds one record
\* twice (so two equal dates)
C2_Witness ==
    /\ Len(homeOut) >= 1
    /\ Len(feed) = MaxPosts
    /\ \E i, j \in 1..Len(feed) : i # j /\ feed[i] = feed[j]
    /\ allPosts # feed

\* C3: rendering Home never changes the shared allPosts list: it holds the
\* records in the sequence the build generated.
C3_AllPostsAsGenerated == allPosts = feed

\* C4: a PostCard of a post with an empty tag list has no tag row; with n >= 1
\* tags it has one row of exactly n chips, the i-th labelled with the i-th tag.
C4_ChipsFollowTags ==
    \A n \in 1..Len(cardOut) :
        "tags" \in DOMAIN props =>
            /\ ~cardOut[n].threw
            /\ Len(props.tags) = 0 => cardOut[n].rows = <<>>
            /\ Len(props.tags) >= 1 =>
                   /\ Len(cardOut[n].rows) = 1
                   /\ Len(cardOut[n].rows[1]) = Len(props.tags)
                   /\ \A i \in 1..Len(props.tags) :
                          cardOut[n].rows[1][i] = Tag(props.tags[i])

\* the tags backend, devops rendered as the chips backend, devops
C4_Witness ==
    /\ "tags" \in DOMAIN props
    /\ props.tags = <<"backend", "devops">>
    /\ Len(cardOut) >= 1
    /\ cardOut[1].rows = << <<Tag("backend"), Tag("devops")>> >>

\* C5: with no posts every render of Home returns normally with no cards.
C5_NoPostsNoCards ==
    feed = <<>> =>
        \A n \in 1..Len(homeOut) : homeOut[n] = [threw |-> FALSE, cards |-> <<>>]

C5_Witness == feed = <<>> /\ allPosts = <<>> /\ Len(homeOut) >= 1

\* C6: a PostCard of a post with no tags attribute renders without error,
\* with no tag row and with the date, title link and description; and the tag
\* row is rendered exactly when tags is present and not empty.
C6_TagsOptional ==
    \A n \in 1..Len(cardOut) :
        /\ "tags" \notin DOMAIN props =>
               /\ ~cardOut[n].threw
               /\ cardOut[n].rows = <<>>
               /\ cardOut[n].time.dateTime = props.date
               /\ cardOut[n].link = [href |-> props.url, text |-> props.title]
               /\ cardOut[n].description = props.description
        /\ ~cardOut[n].threw =>
               (cardOut[n].rows # <<>>
                    <=> ("tags" \in DOMAIN props /\ props.tags # <<>>))

C6_Witness ==
    /\ "tags" \notin DOMAIN props
    /\ Len(cardOut) >= 1
    /\ ~cardOut[1].threw
    /\ cardOut[1].rows = <<>>

\* C7: Navigation links exactly Home (/), Posts (/posts), Tags (/tags),
\* About (/about) in that order, and the documentation nav links exactly
\* Home (/), DevOps (/devops), Backend (/backend), Me (/me), Sponsor (/sponsor).
C7_NavigationSurface ==
    /\ navOut # <<>> =>
           navOut = << [href |-> "/", text |-> "Home"],
                       [href |-> "/posts", text |-> "Posts"],
                       [href |-> "/tags", text |-> "Tags"],
                       [href |-> "/about", text |-> "About"] >>
    /\ docsNav # <<>> =>
           docsNav = << [text |-> "Home", link |-> "/"],
                        [text |-> "DevOps", link |-> "/devops"],
                        [text |-> "Backend", link |-> "/backend"],
                        [text |-> "Me", link |-> "/me"],
                        [text |-> "Sponsor", link |-> "/sponsor"] >>

\* C8: a render of PostCard leaves the post record it is passed, its tag list
\* included, as it was, and every render of the same record gives the output
\* of the first.
C8_PostCardPure ==
    /\ [][props' = props]_vars
    /\ [](\A n \in 1..Len(cardOut) : cardOut[n] = cardOut[1])

C8_Witness ==
    /\ "tags" \in DOMAIN props
    /\ props.tags = <<"backend", "devops">>
    /\ Len(cardOut) >= 2
    /\ cardOut[2] = cardOut[1]

\* C9: the n-th render of Home gives the card sequence of the first render.
C9_RendersAgree ==
    \A n \in 1..Len(homeOut) : homeOut[n] = homeOut[1]

\* three renders of a feed that was not in order and has posts whose dates
\* denote one instant
C9_Witness ==
    /\ Len(homeOut) >= MaxRenders
    /\ allPosts # feed
    /\ \E i, j \in 1..Len(feed) :
           feed[i] # feed[j] /\ NewDate(feed[i].date, tz) = NewDate(feed[j].date, tz)

\* C10: posts whose dates denote the same instant are rendered in the order
\* they have in the generated feed.
C10_TiesKeepFeedOrder ==
    homeOut # <<>> =>
        /\ ~LastHome.threw
        /\ \A t \in {NewDate(feed[i].date, tz) : i \in 1..Len(feed)} :
               CardsAtInstant(LastHome.cards, t) = PostCards(AtInstant(feed, t), tz)

\* a rendered feed where a later post moved before two posts that tie, the
\* two written with different date strings
C10_Witness ==
    /\ Len(homeOut) >= 2
    /\ allPosts # feed
    /\ \E i, j \in 1..Len(feed) :
           /\ i < j
           /\ feed[i].date # feed[j].date
           /\ feed[i].title # feed[j].title
           /\ NewDate(feed[i].date, tz) = NewDate(feed[j].date, tz)


\* the one-to-one maps of 1..n onto itself
Perms(n) == {f \in [1..n -> 1..n] : \A i, j \in 1..n : i # j => f[i] # f[j]}

\* seq in the order f gives
Reordered(seq, f) == [i \in 1..Len(seq) |-> seq[f[i]]]

\* no two posts of seq have dates that denote the same instant
DistinctInstants(seq) ==
    \A i, j \in 1..Len(seq) :
        i # j => NewDate(seq[i].date, tz) # NewDate(seq[j].date, tz)

\* C11: when the dates of the feed are pairwise distinct instants, Home renders
\* the same card sequence for the feed in any other input order: its first
\* render of the feed is what it returns for every reordering of the feed.
C11_OrderIndependentOfInput ==
    (Len(homeOut) = 1 /\ DistinctInstants(feed)) =>
        \A f \in Perms(Len(feed)) :
            HomeRender(ArraySort(Reordered(feed, f), tz), tz) = homeOut[1]

\* a rendered feed of the most posts, pairwise distinct in date and not in
\* order
C11_Witness ==
    /\ Len(homeOut) >= 1
    /\ Len(feed) = MaxPosts
    /\ DistinctInstants(feed)
    /\ allPosts # feed
    /\ \E i, j \in 1..Len(feed) : feed[i].title # feed[j].title

\* C12: the k-th card of a render of Home shows the date, title, url,
\* description and tags of the k-th post of the sorted list, and its link
\* points to that post's url.
C12_CardShowsItsPost ==
    homeOut # <<>> =>
        /\ ~LastHome.threw
        /\ Len(LastHome.cards) = Len(allPosts)
        /\ \A k \in 1..Len(allPosts) :
               /\ LastHome.cards[k].time.dateTime = allPosts[k].date
               /\ LastHome.cards[k].time.text
                      = Format(ParseISO(allPosts[k].date, tz), tz)
               /\ LastHome.cards[k].link.text = allPosts[k].title
               /\ LastHome.cards[k].link.href = allPosts[k].url
               /\ LastHome.cards[k].description = allPosts[k].description
               /\ LastHome.cards[k].rows =
                      IF "tags" \in DOMAIN allPosts[k] /\ allPosts[k].tags # <<>>
                      THEN << [i \in 1..Len(allPosts[k].tags) |->
                                  Tag(allPosts[k].tags[i])] >>
                      ELSE <<>>

\* a rendered feed, not in order, of a tagged post and an untagged post of
\* another title
C12_Witness ==
    /\ Len(homeOut) >= 1
    /\ allPosts # feed
    /\ Len(allPosts) >= 2
    /\ allPosts[1].title # allPosts[2].title
    /\ LastHome.cards[1].link.href = allPosts[1].url
    /\ LastHome.cards[2].link.href = allPosts[2].url
    /\ LastHome.cards[1].link.href # LastHome.cards[2].link.href

\* the number of the month format wrote
MonthIndex(name) == CHOOSE k \in 1..12 : MonthNames[k] = name

\* the calendar day a card displays, as a day number
DisplayedDay(card) ==
    DaysFromCivil(card.time.text.yyyy, MonthIndex(card.time.text.month),
                  card.time.text.d)

\* C13: the dates the cards display are non-increasing down the page: a card
\* above another displays a calendar date no earlier than it.
C13_DisplayedDatesNonIncreasing ==
    homeOut # <<>> =>
        /\ ~LastHome.threw
        /\ \A i, j \in 1..Len(LastHome.cards) :
               i < j => DisplayedDay(LastHome.cards[i]) >= DisplayedDay(LastHome.cards[j])


RECURSIVE PreorderNodes(_)
RECURSIVE PreorderKids(_, _)
\* the nodes of a tree in document order
PreorderNodes(node) == <<node>> \o PreorderKids(node.kids, 1)
PreorderKids(nodes, i) ==
    IF i > Len(nodes) THEN <<>>
    ELSE PreorderNodes(nodes[i]) \o PreorderKids(nodes, i + 1)

\* the names, in document order, of the nodes of a tree that are named in names
NamesIn(node, names) ==
    LET all == PreorderNodes(node)
        Test(n) == n.el \in names
        kept == SelectSeq(all, Test)
    IN  [i \in 1..Len(kept) |-> kept[i].el]

\* the nodes of a tree named el, in document order
NodesNamed(node, el) ==
    LET Test(n) == n.el = el
    IN  SelectSeq(PreorderNodes(node), Test)

\* C14: a page rendered through RootLayout has exactly one Header, then main
\* holding the page content, then exactly one Footer, and the Header holds
\* exactly one Profile, one Navigation and one ThemeSwitch in that order,
\* whatever the page content.
C14_ShellFixed ==
    layoutOut # <<>> =>
        LET tree == layoutOut[1].tree
            provider == NodesNamed(tree, "ThemeProvider")
            headers == NodesNamed(tree, "Header")
            mains == NodesNamed(tree, "main")
        IN  /\ NamesIn(tree, {"Header", "main", "Footer"}) = <<"Header", "main", "Footer">>
            /\ Len(provider) = 1
            /\ [i \in 1..Len(provider[1].kids) |-> provider[1].kids[i].el]
                   = <<"Header", "main", "Footer">>
            /\ Len(headers) = 1
            /\ NamesIn(headers[1], {"Profile", "Navigation", "ThemeSwitch"})
                   = <<"Profile", "Navigation", "ThemeSwitch">>
            /\ NamesIn(tree, {"Profile", "Navigation", "ThemeSwitch"})
                   = <<"Profile", "Navigation", "ThemeSwitch">>
            /\ Len(mains) = 1
            /\ NodesNamed(mains[1], layoutOut[1].children.el) = <<layoutOut[1].children>>
            /\ NodesNamed(tree, layoutOut[1].children.el) = <<layoutOut[1].children>>

\* the About page rendered through RootLayout
C14_Witness ==
    /\ layoutOut # <<>>
    /\ layoutOut[1].children.el = "About"
    /\ Len(NodesNamed(layoutOut[1].tree, "Header")) = 1

====
